---- MODULE Spec2Model ----
(***************************************************************************)
(* A model of the load-test execution engine of buzzbench.io:              *)
(* internal/runner/runner.go (Runner.RunTest, executeRequest,              *)
(* setupVariableContext, processVariables, getVariableValue).              *)
(*                                                                         *)
(* Strings (URL, body, template) are sequences of tokens: a literal piece  *)
(* of text or one `{{name}}` placeholder.  Durations are counted in ticks, *)
(* TicksPerMs ticks to the millisecond.                                    *)
(***************************************************************************)
EXTENDS Integers, Sequences, FiniteSets, TLC

\* ------------------------------------------------------------------ bounds
MaxRequests == 2
MaxConcurrency == 2
\* the longest stream of results given to the aggregation loop on its own
MaxStream == 3
\* the largest Requests and Concurrency the run's deadline is computed for
MaxTimeoutRequests == 9
MaxTimeoutConcurrency == 6
\* how many times RunTest is called in a row with one configuration
MaxRuns == 2
\* the width of Go's int in the model, in bits (64 in the build)
IntBits == 6

\* ----------------------------------------------------------------- integers
\* Go's int: two's complement of IntBits bits, sums wrap around
MaxInt == 2 ^ (IntBits - 1) - 1
MinInt == -MaxInt - 1
WrapInt(x) == ((x - MinInt) % (2 ^ IntBits)) + MinInt

\* ------------------------------------------------------------------ tokens
Lit(s) == [k |-> "lit", s |-> s, n |-> 0]
Ph(name) == [k |-> "ph", s |-> name, n |-> 0]
\* strconv.Itoa(n): the decimal text of n
Itoa(n) == [k |-> "int", s |-> "", n |-> n]
StrVal(s) == [k |-> "str", s |-> s, n |-> 0]

\* A piece of text url.Parse rejects (a control character, a bad escape)
BadText == "%zz"
OkText == "http://h/"

\* ---------------------------------------------------- variable definitions
\* type Variable (runner.go): the zero value, and one constructor per strategy
Variable0 ==
    [Name |-> "", Type |-> "", Strategy |-> "", Value |-> "",
     StartValue |-> 0, EndValue |-> 0, Increment |-> 0,
     MinValue |-> 0, MaxValue |-> 0, Template |-> <<>>]
StaticVar(name, value) ==
    [Variable0 EXCEPT !.Name = name, !.Type = "string", !.Strategy = "static",
                      !.Value = value]
SequentialVar(name, start, end, inc) ==
    [Variable0 EXCEPT !.Name = name, !.Type = "integer", !.Strategy = "sequential",
                      !.StartValue = start, !.EndValue = end, !.Increment = inc]
RandomVar(name, type, min, max) ==
    [Variable0 EXCEPT !.Name = name, !.Type = type, !.Strategy = "random",
                      !.MinValue = min, !.MaxValue = max]
TemplateVar(name, template) ==
    [Variable0 EXCEPT !.Name = name, !.Type = "string", !.Strategy = "template",
                      !.Template = template]
PlainVar(name, strategy) ==
    [Variable0 EXCEPT !.Name = name, !.Type = "string", !.Strategy = strategy]

\* config.Variables: the JSON text, as whether it parses and the array it holds
Payload(vs) == [ok |-> TRUE, vars |-> vs]
Malformed(vs) == [ok |-> FALSE, vars |-> vs]

\* (start, end, increment) of the sequential variables tried
SeqParams == {<<0, 2, 1>>, <<0, 2, 0>>, <<1, 4, 2>>, <<2, 2, 1>>, <<3, 1, 2>>,
              <<1, 4, MaxInt>>, <<3, 1, MaxInt>>}
\* (type, min, max) of the random variables tried
RandParams == {<<"integer", 5, 5>>, <<"integer", 1, 2>>, <<"integer", 5, 3>>,
               <<"integer", 3, 2>>, <<"float", 1, 2>>, <<"string", 0, 0>>,
               <<"integer", -1, MaxInt>>}

\* --------------------------------------------------------- configurations
\* api.TestConfiguration: the fields RunTest reads
Config(method, url, body, use, payload) ==
    [Method |-> method, URL |-> url, Body |-> body,
     UseVariables |-> use, Variables |-> payload]

AllMethods == {"GET", "DELETE", "POST", "PUT", "PATCH", "HEAD"}
SomeMethods == {"GET", "POST"}

\* no variables: the URL is used as it is written, placeholders included
PlainScenarios ==
    {Config(m, u, <<>>, FALSE, Payload(<<>>)) :
        m \in AllMethods, u \in {<<Lit(OkText)>>, <<Lit(BadText)>>}}
    \cup {Config("POST", <<Lit(OkText), Ph("seq")>>, <<Ph("seq")>>, FALSE,
                 Payload(<<SequentialVar("seq", 0, 2, 1)>>))}

SeqScenarios ==
    {Config("POST", <<Ph("seq"), Ph("seq")>>, <<Ph("seq")>>, TRUE,
            Payload(<<SequentialVar("seq", p[1], p[2], p[3])>>)) : p \in SeqParams}

RandScenarios ==
    {Config("GET", <<Lit(OkText), Ph("rnd")>>, <<>>, TRUE,
            Payload(<<RandomVar("rnd", p[1], p[2], p[3])>>)) : p \in RandParams}
    \cup {Config(m, <<Lit(OkText), Ph("$random")>>, <<Ph("tpl")>>, TRUE,
                 Payload(<<TemplateVar("tpl",
                      <<Ph("$index"), Ph("$random"), Ph("seq"), Ph("$random")>>),
                      SequentialVar("seq", 0, 2, 1)>>)) : m \in SomeMethods}

ErrorScenarios ==
    {Config(m, <<Ph("nope"), Ph("$index")>>, <<Ph("bogus"), Ph("st")>>, TRUE,
            Payload(<<PlainVar("bogus", "bogus"), StaticVar("st", OkText)>>)) :
        m \in SomeMethods}
    \cup {Config(m, <<Ph("st"), Ph("id")>>, <<Ph("ts"), Ph(" st ")>>, TRUE,
                 Payload(<<StaticVar("st", OkText), StaticVar("st", BadText),
                           PlainVar("id", "uuid"), PlainVar("ts", "timestamp")>>)) :
             m \in SomeMethods}
    \cup {Config("GET", <<Ph("seq"), Ph("$index"), Ph("$random")>>, <<>>, TRUE,
                 Malformed(<<SequentialVar("seq", 0, 2, 1)>>))}

Scenarios == PlainScenarios \cup SeqScenarios \cup RandScenarios \cup ErrorScenarios

Configs ==
    {[Requests |-> n, Concurrency |-> c] @@ s :
        n \in 0..MaxRequests, c \in 1..MaxConcurrency, s \in Scenarios}

\* ------------------------------------------------------- variable engine
\* setupVariableContext: the map name -> definition; a payload that does not
\* parse leaves the map empty, a later definition of a name replaces an earlier
\* one, and a sequential increment <= 0 becomes 1
DefaultIncrement(v) ==
    IF v.Strategy = "sequential" /\ v.Increment <= 0
    THEN [v EXCEPT !.Increment = 1] ELSE v
LastIndexOf(vs, name) ==
    CHOOSE i \in DOMAIN vs :
        vs[i].Name = name /\ \A j \in DOMAIN vs : vs[j].Name = name => j <= i
\* SetupVariables as it would be if the definitions read before the parse
\* error were kept
SetupVariablesLenient(cfg) ==
    LET vs == cfg.Variables.vars
        names == {vs[i].Name : i \in DOMAIN vs}
    IN [name \in names |-> DefaultIncrement(vs[LastIndexOf(vs, name)])]
SetupVariables(cfg) ==
    LET vs == cfg.Variables.vars
        names == IF cfg.Variables.ok THEN {vs[i].Name : i \in DOMAIN vs} ELSE {}
    IN [name \in names |-> DefaultIncrement(vs[LastIndexOf(vs, name)])]
\* v.current = v.StartValue for the sequential variables (0 for the others)
InitialCurrent(vars) ==
    [name \in DOMAIN vars |->
        IF vars[name].Strategy = "sequential" THEN vars[name].StartValue ELSE 0]

\* getVariableValue, sequential: the cursor after one advance-then-wrap
SeqAdvance(v, cur) == WrapInt(cur + v.Increment)
\* SeqWraps as it would be if the wrap did not ask for EndValue > StartValue
SeqWrapsUnguarded(v, cur) == cur > v.EndValue
\* SeqWraps as it would be if reaching EndValue already wrapped
SeqWrapsAtEnd(v, cur) == v.EndValue > v.StartValue /\ cur >= v.EndValue
SeqWraps(v, cur) == v.EndValue > v.StartValue /\ cur > v.EndValue
SeqWrap(v, cur) == IF SeqWraps(v, cur) THEN v.StartValue ELSE cur

\* rand.Rand.Intn(n): the values tried are the small ones and the largest
RandSamples == {0, 1}
IntnPanics(n) == n <= 0
\* Intn as it would be if its bound were inclusive
IntnInclusive(n) == {x \in RandSamples : x <= n} \cup {n}
Intn(n) == {x \in RandSamples : x < n} \cup {n - 1}
\* the argument of the Intn(10000) draws of $random, template and random/string
RandomRange == 10000
\* rand.Rand.Float64() in thousandths; fmt.Sprintf("%.2f") rounds to hundredths
FloatSamples == {0, 500, 999}
FloatVal(h) == [k |-> "float", s |-> "", n |-> h]
Sprintf2f(thousandths) == FloatVal((thousandths + 5) \div 10)
RandomStr(n) == [k |-> "random-", s |-> "", n |-> n]
UUIDVal == [k |-> "uuid", s |-> "", n |-> 0]
TimestampVal == [k |-> "rfc3339", s |-> "", n |-> 0]

\* what getVariableValue does for a name: one of
\*   "index" "static" "uuid" "timestamp"   a value, no shared state touched
\*   "undefined" "unsupported"             an error: the placeholder stays
\*   "sequential"                          the critical section
\*   "$random" "int" "float" "string" "template"   a draw from ctx.Rand
Resolution(vars, name) ==
    IF name = "$index" THEN "index"
    ELSE IF name = "$random" THEN "$random"
    ELSE IF name \notin DOMAIN vars THEN "undefined"
    ELSE LET v == vars[name] IN
         CASE v.Strategy = "static" -> "static"
           [] v.Strategy = "sequential" -> "sequential"
           [] v.Strategy = "random" ->
                IF v.Type = "integer" THEN "int"
                ELSE IF v.Type = "float" THEN "float" ELSE "string"
           [] v.Strategy = "uuid" -> "uuid"
           [] v.Strategy = "timestamp" -> "timestamp"
           [] v.Strategy = "template" -> "template"
           [] OTHER -> "unsupported"
\* the argument of the Intn call a draw makes
DrawRange(vars, name, how) ==
    IF how = "int" THEN WrapInt(vars[name].MaxValue - vars[name].MinValue + 1)
    ELSE RandomRange
\* ExpandTemplate as it would be if every reference in a template were resolved
ExpandTemplateDeep(template, requestIndex, draw) ==
    [i \in DOMAIN template |->
        IF template[i] = Ph("$index") THEN Itoa(requestIndex)
        ELSE IF template[i].k = "ph" THEN Itoa(draw)
        ELSE template[i]]
\* the template strategy: strings.ReplaceAll of the two built-ins, nothing else
ExpandTemplate(template, requestIndex, draw) ==
    [i \in DOMAIN template |->
        IF template[i] = Ph("$index") THEN Itoa(requestIndex)
        ELSE IF template[i] = Ph("$random") THEN Itoa(draw)
        ELSE template[i]]
\* the text a finished draw puts in the place of the placeholder
DrawnText(vars, name, how, requestIndex, draw) ==
    CASE how = "$random" -> <<Itoa(draw)>>
      [] how = "int" -> <<Itoa(WrapInt(draw + vars[name].MinValue))>>
      [] how = "string" -> <<RandomStr(draw)>>
      [] how = "template" -> ExpandTemplate(vars[name].Template, requestIndex, draw)
\* random/float: MinValue + Float64() * (MaxValue - MinValue), two decimals
FloatText(v, f) == <<Sprintf2f(v.MinValue * 1000 + f * (v.MaxValue - v.MinValue))>>

\* ------------------------------------------------------------ aggregation
\* ticks to the millisecond: time.Duration is finer than Duration.Milliseconds()
TicksPerMs == 2
Milliseconds(d) == d \div TicksPerMs
Hour == 3600000 * TicksPerMs

\* api.RequestResult; Error = "" is the nil error
RequestResult(duration, status, error, timestamp) ==
    [Duration |-> duration, Status |-> status, Error |-> error,
     Timestamp |-> timestamp]
\* api.ErrorData; Status = -1 is the omitted status
NoStatus == -1
ErrorData(status, message) == [Status |-> status, Message |-> message]
\* net/http.StatusText
StatusText(status) ==
    CASE status = 200 -> "OK"
      [] status = 201 -> "Created"
      [] status = 301 -> "Moved Permanently"
      [] status = 404 -> "Not Found"
      [] status = 500 -> "Internal Server Error"
      [] status = 503 -> "Service Unavailable"
      [] OTHER -> ""

EmptyMap == [x \in {} |-> 0]
\* Increment as it would be if a status seen again were not counted again
IncrementOnce(m, key) == IF key \in DOMAIN m THEN m ELSE m @@ (key :> 1)
Increment(m, key) ==
    IF key \in DOMAIN m THEN [m EXCEPT ![key] = @ + 1] ELSE m @@ (key :> 1)
AppendAt(m, key, x) ==
    IF key \in DOMAIN m THEN [m EXCEPT ![key] = Append(@, x)] ELSE m @@ (key :> <<x>>)

\* the locals of RunTest before the aggregation loop
Agg0 ==
    [totalCount |-> 0, successCount |-> 0, totalDuration |-> 0,
     minDuration |-> Hour, maxDuration |-> 0,
     StatusCodes |-> EmptyMap, Errors |-> <<>>, timelinePoints |-> EmptyMap]

\* IsSuccess as it would be if only a status below 200 were an error
IsSuccessFrom200(status) == status >= 200
IsSuccess(status) == status >= 200 /\ status < 400

\* ProcessResult as it would be if a failed request were not counted
ProcessResultUncounted(a, res) ==
    IF res.Error # ""
    THEN [a EXCEPT !.Errors = Append(@, ErrorData(NoStatus, res.Error))]
    ELSE [a EXCEPT
            !.totalCount = @ + 1,
            !.StatusCodes = Increment(@, res.Status),
            !.successCount = IF IsSuccess(res.Status) THEN @ + 1 ELSE @,
            !.Errors = IF IsSuccess(res.Status) THEN @
                       ELSE Append(@, ErrorData(res.Status, StatusText(res.Status))),
            !.totalDuration = @ + res.Duration,
            !.minDuration = IF res.Duration < @ THEN res.Duration ELSE @,
            !.maxDuration = IF res.Duration > @ THEN res.Duration ELSE @,
            !.timelinePoints = AppendAt(@, res.Timestamp, Milliseconds(res.Duration))]
\* one iteration of `for res := range resultChan`
ProcessResult(a, res) ==
    IF res.Error # ""
    THEN [a EXCEPT !.totalCount = @ + 1,
                   !.Errors = Append(@, ErrorData(NoStatus, res.Error))]
    ELSE [a EXCEPT
            !.totalCount = @ + 1,
            !.StatusCodes = Increment(@, res.Status),
            !.successCount = IF IsSuccess(res.Status) THEN @ + 1 ELSE @,
            !.Errors = IF IsSuccess(res.Status) THEN @
                       ELSE Append(@, ErrorData(res.Status, StatusText(res.Status))),
            !.totalDuration = @ + res.Duration,
            !.minDuration = IF res.Duration < @ THEN res.Duration ELSE @,
            !.maxDuration = IF res.Duration > @ THEN res.Duration ELSE @,
            !.timelinePoints = AppendAt(@, res.Timestamp, Milliseconds(res.Duration))]

RECURSIVE SumSeq(_)
SumSeq(q) == IF q = <<>> THEN 0 ELSE Head(q) + SumSeq(Tail(q))

\* a float64 quotient, kept as numerator and denominator
Ratio(num, den) == <<num, den>>
\* TimelinePoint as it would be if the second took its first duration only
TimelinePointOfFirst(second, durations) ==
    [Timestamp |-> second, ResponseTime |-> Ratio(Head(durations), 1),
     ActiveUsers |-> Len(durations)]
\* TimelinePoint as it would be if the durations were summed, not averaged
TimelinePointOfSum(second, durations) ==
    [Timestamp |-> second, ResponseTime |-> Ratio(SumSeq(durations), 1),
     ActiveUsers |-> Len(durations)]
\* api.TimelinePoint of one second
TimelinePoint(second, durations) ==
    [Timestamp |-> second, ResponseTime |-> Ratio(SumSeq(durations), Len(durations)),
     ActiveUsers |-> Len(durations)]
\* Summarize as it would be if the extremes were reported without a success
SummarizeUngated(a) ==
    [SuccessRate |-> IF a.totalCount > 0
                     THEN Ratio(a.successCount * 100, a.totalCount) ELSE Ratio(0, 1),
     AvgResponseTime |-> IF a.totalCount > 0
                         THEN Ratio(Milliseconds(a.totalDuration), a.totalCount)
                         ELSE Ratio(0, 1),
     MinResponseTime |-> IF a.totalCount > 0
                         THEN Milliseconds(a.minDuration) ELSE 0,
     MaxResponseTime |-> IF a.totalCount > 0
                         THEN Milliseconds(a.maxDuration) ELSE 0,
     StatusCodes |-> a.StatusCodes,
     Errors |-> a.Errors,
     Timeline |-> {TimelinePoint(sec, a.timelinePoints[sec]) :
                      sec \in DOMAIN a.timelinePoints},
     totalCount |-> a.totalCount,
     err |-> "nil"]
\* the summary RunTest returns (the timeline is kept as a set: map iteration
\* order is not fixed); RequestsPerSecond depends on the wall clock and is left out
Summarize(a) ==
    [SuccessRate |-> IF a.totalCount > 0
                     THEN Ratio(a.successCount * 100, a.totalCount) ELSE Ratio(0, 1),
     AvgResponseTime |-> IF a.totalCount > 0
                         THEN Ratio(Milliseconds(a.totalDuration), a.totalCount)
                         ELSE Ratio(0, 1),
     MinResponseTime |-> IF a.totalCount > 0 /\ a.successCount > 0
                         THEN Milliseconds(a.minDuration) ELSE 0,
     MaxResponseTime |-> IF a.totalCount > 0 /\ a.successCount > 0
                         THEN Milliseconds(a.maxDuration) ELSE 0,
     StatusCodes |-> a.StatusCodes,
     Errors |-> a.Errors,
     Timeline |-> {TimelinePoint(sec, a.timelinePoints[sec]) :
                      sec \in DOMAIN a.timelinePoints},
     totalCount |-> a.totalCount,
     err |-> "nil"]
NoResult == [err |-> "none"]

\* ------------------------------------------------------------------ state
VARIABLES
    config,        \* the api.TestConfiguration of the run
    ctxDone,       \* ctx.Done() is closed (the deadline fired, or cancel ran)
    deadlineFired, \* the context.WithTimeout deadline fired during the run
    requestChan,   \* the buffered indices of requestChan
    requestClosed, \* close(requestChan) ran
    feeder,        \* the feeder goroutine: its loop index and position
    main,          \* the position of RunTest itself, and its spawn loop index
    supervisor,    \* the goroutine of wg.Wait(); close(resultChan)
    wg,            \* the counter of the sync.WaitGroup
    worker,        \* per worker goroutine: its position and locals
    variables,     \* varCtx.Variables (empty when varCtx is nil)
    current,       \* the field current of each variable
    mutex,         \* the holder of varCtx.Mutex, 0 when unlocked
    randUsers,     \* the workers inside a method of varCtx.Rand
    resultChan,    \* the buffered results of resultChan
    resultClosed,  \* close(resultChan) ran
    agg,           \* the locals of the aggregation loop
    result,        \* what RunTest returned
    panicked,      \* the panic that ended the process, "" when none
    history        \* bookkeeping for the properties, never read by the program

vars == <<config, ctxDone, deadlineFired, requestChan, requestClosed, feeder, main,
          supervisor, wg, worker, variables, current, mutex, randUsers, resultChan,
          resultClosed, agg, result, panicked, history>>

Workers == 1..MaxConcurrency
Unlocked == 0
NoRequest == -1

\* the buffer of the run's deadline, in seconds
TimeoutBuffer == 10
\* Timeout as it would be if the quotient were rounded up
TimeoutRoundedUp(cfg) ==
    (cfg.Requests + cfg.Concurrency - 1) \div cfg.Concurrency + TimeoutBuffer
\* the argument of context.WithTimeout, in seconds: an int division
Timeout(cfg) == cfg.Requests \div cfg.Concurrency + TimeoutBuffer
NoTimeout == -1
\* RunTest before its first statement
Main0 == [pc |-> "start", i |-> 0, timeout |-> NoTimeout]

\* the locals of a worker that is not inside executeRequest
Worker0 ==
    [pc |-> "unborn", reqIdx |-> NoRequest, field |-> "", input |-> <<>>, pos |-> 0,
     out |-> <<>>, reqURL |-> <<>>, reqBody |-> <<>>, name |-> "", how |-> "",
     local |-> 0, reqStart |-> 0]
AtSelect == [Worker0 EXCEPT !.pc = "select"]
Exited == [Worker0 EXCEPT !.pc = "exited"]

History0 ==
    [taken |-> [i \in 0..(MaxRequests - 1) |-> 0],
     pushed |-> [i \in 0..(MaxRequests - 1) |-> 0],
     sent |-> [i \in 0..(MaxRequests - 1) |-> 0],
     skipped |-> {},
     handed |-> <<>>,
     raced |-> FALSE,
     processed |-> <<>>,
     runs |-> 1,
     earlier |-> <<>>]

Init ==
    /\ config \in Configs
    /\ ctxDone = FALSE
    /\ deadlineFired = FALSE
    /\ requestChan = <<>>
    /\ requestClosed = FALSE
    /\ feeder = [pc |-> "loop", i |-> 0]
    /\ main = Main0
    /\ supervisor = "unborn"
    /\ wg = 0
    /\ worker = [w \in Workers |-> Worker0]
    /\ variables = IF config.UseVariables THEN SetupVariables(config)
                   ELSE [name \in {} |-> Variable0]
    /\ current = InitialCurrent(variables)
    /\ mutex = Unlocked
    /\ randUsers = {}
    /\ resultChan = <<>>
    /\ resultClosed = FALSE
    /\ agg = Agg0
    /\ result = NoResult
    /\ panicked = ""
    /\ history = History0

Running == panicked = ""
\* RunTest has created the run's context
Started == main.pc # "start"

\* --------------------------------------------------------------- feeder
\* requestChan <- i
FeederSend ==
    /\ Running /\ Started /\ feeder.pc = "loop" /\ feeder.i < config.Requests
    /\ Len(requestChan) < config.Requests
    /\ requestChan' = Append(requestChan, feeder.i)
    /\ feeder' = [feeder EXCEPT !.i = @ + 1]
    /\ UNCHANGED <<config, ctxDone, deadlineFired, requestClosed, main, supervisor, wg,
                   worker, variables, current, mutex, randUsers, resultChan,
                   resultClosed, agg, result, panicked, history>>
\* case <-ctx.Done(): return, and the deferred close(requestChan)
FeederCancelled ==
    /\ Running /\ Started /\ feeder.pc = "loop" /\ feeder.i < config.Requests
    /\ ctxDone
    /\ requestClosed' = TRUE
    /\ feeder' = [feeder EXCEPT !.pc = "done"]
    /\ UNCHANGED <<config, ctxDone, deadlineFired, requestChan, main, supervisor, wg,
                   worker, variables, current, mutex, randUsers, resultChan,
                   resultClosed, agg, result, panicked, history>>
\* the loop ends, and the deferred close(requestChan)
FeederClose ==
    /\ Running /\ Started /\ feeder.pc = "loop" /\ feeder.i >= config.Requests
    /\ requestClosed' = TRUE
    /\ feeder' = [feeder EXCEPT !.pc = "done"]
    /\ UNCHANGED <<config, ctxDone, deadlineFired, requestChan, main, supervisor, wg,
                   worker, variables, current, mutex, randUsers, resultChan,
                   resultClosed, agg, result, panicked, history>>

\* ------------------------------------------------- RunTest's own goroutine
\* ctx, cancel := context.WithTimeout(context.Background(), ...)
Begin ==
    /\ Running /\ main.pc = "start"
    /\ main' = [main EXCEPT !.pc = "spawn", !.timeout = Timeout(config)]
    /\ UNCHANGED <<config, ctxDone, deadlineFired, requestChan, requestClosed, feeder,
                   supervisor, wg, worker, variables, current, mutex, randUsers,
                   resultChan, resultClosed, agg, result, panicked, history>>
\* SpawnMore as it would be if the loop ran once more than config.Concurrency
SpawnOneMore(i, cfg) == i <= cfg.Concurrency
\* for i := 0; i < config.Concurrency; i++
SpawnMore(i, cfg) == i < cfg.Concurrency
\* wg.Add(1); go func() {...}()
SpawnWorker ==
    /\ Running /\ main.pc = "spawn" /\ SpawnMore(main.i, config)
    /\ wg' = wg + 1
    /\ worker' = [worker EXCEPT ![main.i + 1] = AtSelect]
    /\ main' = [main EXCEPT !.i = @ + 1]
    /\ UNCHANGED <<config, ctxDone, deadlineFired, requestChan, requestClosed, feeder,
                   supervisor, variables, current, mutex, randUsers, resultChan,
                   resultClosed, agg, result, panicked, history>>
\* the spawn loop ends; go func() { wg.Wait(); close(resultChan) }()
StartSupervisor ==
    /\ Running /\ main.pc = "spawn" /\ ~SpawnMore(main.i, config)
    /\ supervisor' = "wait"
    /\ main' = [main EXCEPT !.pc = "aggregate"]
    /\ UNCHANGED <<config, ctxDone, deadlineFired, requestChan, requestClosed, feeder,
                   wg, worker, variables, current, mutex, randUsers, resultChan,
                   resultClosed, agg, result, panicked, history>>
\* WaitReturns as it would be if the supervisor did not wait for the workers
WaitReturnsAtOnce(n) == TRUE
\* wg.Wait() returns when the counter is zero
WaitReturns(n) == n = 0
SupervisorClose ==
    /\ Running /\ supervisor = "wait" /\ WaitReturns(wg)
    /\ resultClosed' = TRUE
    /\ supervisor' = "done"
    /\ UNCHANGED <<config, ctxDone, deadlineFired, requestChan, requestClosed, feeder,
                   main, wg, worker, variables, current, mutex, randUsers, resultChan,
                   agg, result, panicked, history>>
\* RangeEnds as it would be if a closed channel ended the loop at once
RangeEndsOnClose(ch, closed) == closed
\* the range over resultChan ends when the channel is closed and drained
RangeEnds(ch, closed) == ch = <<>> /\ closed
\* for res := range resultChan: one result is received and processed
Receive ==
    /\ Running /\ main.pc = "aggregate" /\ resultChan # <<>>
    /\ agg' = ProcessResult(agg, Head(resultChan))
    /\ resultChan' = Tail(resultChan)
    /\ history' = [history EXCEPT !.processed = Append(@, Head(resultChan))]
    /\ UNCHANGED <<config, ctxDone, deadlineFired, requestChan, requestClosed, feeder,
                   main, supervisor, wg, worker, variables, current, mutex, randUsers,
                   resultClosed, result, panicked>>
\* the range loop ends on the closed, drained channel; the summary is built and
\* returned with a nil error; the deferred cancel() closes ctx.Done()
Return ==
    /\ Running /\ main.pc = "aggregate" /\ RangeEnds(resultChan, resultClosed)
    /\ result' = Summarize(agg)
    /\ main' = [main EXCEPT !.pc = "returned"]
    /\ ctxDone' = TRUE
    /\ UNCHANGED <<config, deadlineFired, requestChan, requestClosed, feeder,
                   supervisor, wg, worker, variables, current, mutex, randUsers,
                   resultChan, resultClosed, agg, panicked, history>>
\* the deadline of context.WithTimeout passes
DeadlineExpires ==
    /\ Running /\ Started /\ ~ctxDone /\ main.pc # "returned"
    /\ ctxDone' = TRUE
    /\ deadlineFired' = TRUE
    /\ UNCHANGED <<config, requestChan, requestClosed, feeder, main, supervisor, wg,
                   worker, variables, current, mutex, randUsers, resultChan,
                   resultClosed, agg, result, panicked, history>>

\* --------------------------------------------------------------- workers
\* the methods whose body goes through processVariables
ResolvesBody(method) == method \in {"POST", "PUT", "PATCH"}
\* the methods built without a body
Bodyless(method) == method \in {"GET", "DELETE"}
\* http.NewRequestWithContext fails on a URL that url.Parse rejects
Invalid(url) == \E i \in DOMAIN url : url[i].k \in {"lit", "str"} /\ url[i].s = BadText
\* time.Now(), as a unix second
UnixSeconds == {10, 11}
\* what client.Do can return once the request is on the wire
Response(status, duration) == [Status |-> status, Error |-> "", Duration |-> duration]
Failure(error, duration) == [Status |-> 0, Error |-> error, Duration |-> duration]
Responses ==
    {Response(200, 20 * TicksPerMs + 1), Response(503, 30 * TicksPerMs),
     Failure("connection refused", 10 * TicksPerMs)}
Aborted == Failure("context deadline exceeded", 40 * TicksPerMs)
Refused == Failure("context deadline exceeded", 0)

\* ResultCapacity as it would be if resultChan were sized to the worker pool
ResultCapacityOfPool(cfg) == cfg.Concurrency
\* make(chan api.RequestResult, config.Requests)
ResultCapacity(cfg) == cfg.Requests
\* Push as it would be if a failed request pushed no result
PushUnlessFailed(res) ==
    IF res.Error # ""
    THEN UNCHANGED <<resultChan, panicked>>
    ELSE /\ Len(resultChan) < ResultCapacity(config)
         /\ resultChan' = Append(resultChan, res)
         /\ UNCHANGED panicked
\* resultChan <- res: blocks on a full buffer, panics on a closed channel
Push(res) ==
    IF resultClosed
    THEN /\ panicked' = "send on closed channel"
         /\ UNCHANGED resultChan
    ELSE /\ Len(resultChan) < ResultCapacity(config)
         /\ resultChan' = Append(resultChan, res)
         /\ UNCHANGED panicked

\* the worker's locals when the request goes on to be built
ToBuild(r) ==
    [r EXCEPT !.pc = "build", !.field = "", !.input = <<>>, !.pos = 0, !.out = <<>>,
              !.name = "", !.how = "", !.local = 0]
\* processVariables returned `out` for the body
FinishBody(r) == ToBuild([r EXCEPT !.reqBody = r.out])
\* processVariables starts on the body (an empty input is returned at once)
StartBody(r) ==
    LET b == [r EXCEPT !.field = "body", !.input = config.Body, !.pos = 1,
                       !.out = <<>>]
    IN IF config.Body = <<>> THEN FinishBody(b) ELSE b
\* processVariables returned `out` for the URL
FinishURL(r) ==
    LET u == [r EXCEPT !.reqURL = r.out]
    IN IF ResolvesBody(config.Method) THEN StartBody(u) ELSE ToBuild(u)
\* ReplaceAllStringFunc moves on to the next match, or returns
Settle(r) ==
    IF r.pos <= Len(r.input) THEN r
    ELSE IF r.field = "url" THEN FinishURL(r) ELSE FinishBody(r)
\* the callback returned `text` for the match at r.pos
Advance(r, text) ==
    Settle([r EXCEPT !.pc = "resolve", !.out = @ \o text, !.pos = @ + 1,
                     !.name = "", !.how = "", !.local = 0])
\* processVariables starts on the URL
StartURL(r) ==
    LET u == [r EXCEPT !.pc = "resolve", !.field = "url", !.input = config.URL,
                       !.pos = 1, !.out = <<>>, !.reqBody = config.Body]
    IN IF config.URL = <<>> THEN FinishURL(u) ELSE u

\* Take as it would be if the index stayed in the channel for the next receiver
TakePeeks(w) ==
    /\ Running /\ worker[w].pc = "select" /\ requestChan # <<>>
    /\ worker' = [worker EXCEPT ![w] = [AtSelect EXCEPT !.pc = "execute",
                                                        !.reqIdx = Head(requestChan)]]
    /\ history' = [history EXCEPT !.taken[Head(requestChan)] = @ + 1]
    /\ UNCHANGED <<config, ctxDone, deadlineFired, requestChan, requestClosed, feeder,
                   main, supervisor, wg, variables, current, mutex, randUsers,
                   resultChan, resultClosed, agg, result, panicked>>
\* case reqIdx, ok := <-requestChan, ok
Take(w) ==
    /\ Running /\ worker[w].pc = "select" /\ requestChan # <<>>
    /\ worker' = [worker EXCEPT ![w] = [AtSelect EXCEPT !.pc = "execute",
                                                        !.reqIdx = Head(requestChan)]]
    /\ requestChan' = Tail(requestChan)
    /\ history' = [history EXCEPT !.taken[Head(requestChan)] = @ + 1]
    /\ UNCHANGED <<config, ctxDone, deadlineFired, requestClosed, feeder, main,
                   supervisor, wg, variables, current, mutex, randUsers, resultChan,
                   resultClosed, agg, result, panicked>>
\* case _, ok := <-requestChan, !ok: return, and the deferred wg.Done()
StopOnClose(w) ==
    /\ Running /\ worker[w].pc = "select" /\ requestChan = <<>> /\ requestClosed
    /\ worker' = [worker EXCEPT ![w] = Exited]
    /\ wg' = wg - 1
    /\ UNCHANGED <<config, ctxDone, deadlineFired, requestChan, requestClosed, feeder,
                   main, supervisor, variables, current, mutex, randUsers, resultChan,
                   resultClosed, agg, result, panicked, history>>
\* case <-ctx.Done(): return, and the deferred wg.Done()
StopOnDone(w) ==
    /\ Running /\ worker[w].pc = "select" /\ ctxDone
    /\ worker' = [worker EXCEPT ![w] = Exited]
    /\ wg' = wg - 1
    /\ UNCHANGED <<config, ctxDone, deadlineFired, requestChan, requestClosed, feeder,
                   main, supervisor, variables, current, mutex, randUsers, resultChan,
                   resultClosed, agg, result, panicked, history>>
\* executeRequest, its first select: return when ctx is done
Skip(w) ==
    /\ Running /\ worker[w].pc = "execute" /\ ctxDone
    /\ worker' = [worker EXCEPT ![w] = AtSelect]
    /\ history' = [history EXCEPT !.skipped = @ \cup {worker[w].reqIdx}]
    /\ UNCHANGED <<config, ctxDone, deadlineFired, requestChan, requestClosed, feeder,
                   main, supervisor, wg, variables, current, mutex, randUsers,
                   resultChan, resultClosed, agg, result, panicked>>
\* executeRequest, the default case: reqURL, reqBody, and the start of
\* processVariables when variables are in use
Enter(w) ==
    /\ Running /\ worker[w].pc = "execute" /\ ~ctxDone
    /\ worker' = [worker EXCEPT ![w] =
            IF config.UseVariables THEN StartURL(worker[w])
            ELSE ToBuild([worker[w] EXCEPT !.reqURL = config.URL,
                                           !.reqBody = config.Body])]
    /\ UNCHANGED <<config, ctxDone, deadlineFired, requestChan, requestClosed, feeder,
                   main, supervisor, wg, variables, current, mutex, randUsers,
                   resultChan, resultClosed, agg, result, panicked, history>>

\* the match the callback of ReplaceAllStringFunc is at, and how it resolves
Token(r) == r.input[r.pos]
How(r) == IF Token(r).k = "ph" THEN Resolution(variables, Token(r).s) ELSE "literal"
\* LocalText as it would be if a static value were given to request 0 only
LocalTextStaticOnce(r) ==
    CASE How(r) = "literal" -> <<Token(r)>>
      [] How(r) = "index" -> <<Itoa(r.reqIdx)>>
      [] How(r) = "static" ->
            <<StrVal(IF r.reqIdx = 0 THEN variables[Token(r).s].Value ELSE "")>>
      [] How(r) = "uuid" -> <<UUIDVal>>
      [] How(r) = "timestamp" -> <<TimestampVal>>
      [] How(r) \in {"undefined", "unsupported"} -> <<Token(r)>>
\* LocalText as it would be if a failed lookup put its empty value in the text
LocalTextBlank(r) ==
    CASE How(r) = "literal" -> <<Token(r)>>
      [] How(r) = "index" -> <<Itoa(r.reqIdx)>>
      [] How(r) = "static" -> <<StrVal(variables[Token(r).s].Value)>>
      [] How(r) = "uuid" -> <<UUIDVal>>
      [] How(r) = "timestamp" -> <<TimestampVal>>
      [] How(r) \in {"undefined", "unsupported"} -> <<StrVal("")>>
\* the text of a match that needs no shared state
LocalText(r) ==
    CASE How(r) = "literal" -> <<Token(r)>>
      [] How(r) = "index" -> <<Itoa(r.reqIdx)>>
      [] How(r) = "static" -> <<StrVal(variables[Token(r).s].Value)>>
      [] How(r) = "uuid" -> <<UUIDVal>>
      [] How(r) = "timestamp" -> <<TimestampVal>>
      [] How(r) \in {"undefined", "unsupported"} -> <<Token(r)>>

\* text between matches is copied; $index, static, uuid, timestamp give their
\* value; an undefined name or an unsupported strategy returns the match itself
ResolveLocal(w) ==
    /\ Running /\ worker[w].pc = "resolve"
    /\ How(worker[w]) \in {"literal", "index", "static", "uuid", "timestamp",
                           "undefined", "unsupported"}
    /\ worker' = [worker EXCEPT ![w] = Advance(worker[w], LocalText(worker[w]))]
    /\ UNCHANGED <<config, ctxDone, deadlineFired, requestChan, requestClosed, feeder,
                   main, supervisor, wg, variables, current, mutex, randUsers,
                   resultChan, resultClosed, agg, result, panicked, history>>

\* LockFree as it would be if the critical section took no lock
LockIgnored(m) == TRUE
\* ctx.Mutex.Lock() succeeds when nobody holds the mutex
LockFree(m) == m = Unlocked
SeqLock(w) ==
    /\ Running /\ worker[w].pc = "resolve" /\ How(worker[w]) = "sequential"
    /\ LockFree(mutex)
    /\ mutex' = w
    /\ worker' = [worker EXCEPT ![w].pc = "locked", ![w].name = Token(worker[w]).s]
    /\ UNCHANGED <<config, ctxDone, deadlineFired, requestChan, requestClosed, feeder,
                   main, supervisor, wg, variables, current, randUsers, resultChan,
                   resultClosed, agg, result, panicked, history>>
\* current := v.current
SeqRead(w) ==
    /\ Running /\ worker[w].pc = "locked"
    /\ worker' = [worker EXCEPT ![w].pc = "read",
                                ![w].local = current[worker[w].name]]
    /\ history' = [history EXCEPT !.handed = Append(@, current[worker[w].name])]
    /\ UNCHANGED <<config, ctxDone, deadlineFired, requestChan, requestClosed, feeder,
                   main, supervisor, wg, variables, current, mutex, randUsers,
                   resultChan, resultClosed, agg, result, panicked>>
\* v.current += v.Increment
SeqAdd(w) ==
    /\ Running /\ worker[w].pc = "read"
    /\ current' = [current EXCEPT ![worker[w].name] =
                      SeqAdvance(variables[worker[w].name], @)]
    /\ worker' = [worker EXCEPT ![w].pc = "added"]
    /\ UNCHANGED <<config, ctxDone, deadlineFired, requestChan, requestClosed, feeder,
                   main, supervisor, wg, variables, mutex, randUsers, resultChan,
                   resultClosed, agg, result, panicked, history>>
\* the wrap to StartValue, ctx.Mutex.Unlock(), return strconv.Itoa(current)
SeqWrapUnlock(w) ==
    /\ Running /\ worker[w].pc = "added"
    /\ current' = [current EXCEPT ![worker[w].name] =
                      SeqWrap(variables[worker[w].name], @)]
    /\ mutex' = Unlocked
    /\ worker' = [worker EXCEPT ![w] = Advance(worker[w], <<Itoa(worker[w].local)>>)]
    /\ UNCHANGED <<config, ctxDone, deadlineFired, requestChan, requestClosed, feeder,
                   main, supervisor, wg, variables, randUsers, resultChan,
                   resultClosed, agg, result, panicked, history>>

IsDraw(how) == how \in {"$random", "int", "float", "string", "template"}
\* ctx.Rand.Intn(n) panics on n <= 0 (random/integer with MaxValue < MinValue)
DrawPanics(w) ==
    /\ Running /\ worker[w].pc = "resolve" /\ How(worker[w]) = "int"
    /\ IntnPanics(DrawRange(variables, Token(worker[w]).s, "int"))
    /\ panicked' = "invalid argument to Intn"
    /\ UNCHANGED <<config, ctxDone, deadlineFired, requestChan, requestClosed, feeder,
                   main, supervisor, wg, worker, variables, current, mutex, randUsers,
                   resultChan, resultClosed, agg, result, history>>
\* a method of ctx.Rand is entered; no lock is taken
DrawBegin(w) ==
    /\ Running /\ worker[w].pc = "resolve" /\ IsDraw(How(worker[w]))
    /\ How(worker[w]) = "int" =>
          ~IntnPanics(DrawRange(variables, Token(worker[w]).s, "int"))
    /\ randUsers' = randUsers \cup {w}
    /\ worker' = [worker EXCEPT ![w].pc = "drawing", ![w].name = Token(worker[w]).s,
                                ![w].how = How(worker[w])]
    /\ history' = [history EXCEPT !.raced = @ \/ randUsers # {}]
    /\ UNCHANGED <<config, ctxDone, deadlineFired, requestChan, requestClosed, feeder,
                   main, supervisor, wg, variables, current, mutex, resultChan,
                   resultClosed, agg, result, panicked>>
\* the method of ctx.Rand returns a value of its range
DrawEnd(w) ==
    /\ Running /\ worker[w].pc = "drawing"
    /\ randUsers' = randUsers \ {w}
    /\ LET r == worker[w] IN
       IF r.how = "float"
       THEN \E f \in FloatSamples :
               worker' = [worker EXCEPT ![w] = Advance(r, FloatText(variables[r.name], f))]
       ELSE \E d \in Intn(DrawRange(variables, r.name, r.how)) :
               worker' = [worker EXCEPT ![w] =
                   Advance(r, DrawnText(variables, r.name, r.how, r.reqIdx, d))]
    /\ UNCHANGED <<config, ctxDone, deadlineFired, requestChan, requestClosed, feeder,
                   main, supervisor, wg, variables, current, mutex, resultChan,
                   resultClosed, agg, result, panicked, history>>
\* two goroutines inside the unsynchronised rand.Rand at once: besides any value
\* of the range, the source's indices can leave its array (index out of range)
DrawRaces(w) ==
    /\ Running /\ worker[w].pc = "drawing"
    /\ randUsers \ {w} # {}
    /\ panicked' = "index out of range"
    /\ UNCHANGED <<config, ctxDone, deadlineFired, requestChan, requestClosed, feeder,
                   main, supervisor, wg, worker, variables, current, mutex, randUsers,
                   resultChan, resultClosed, agg, result, history>>

\* http.NewRequestWithContext fails and the method is GET or DELETE: the
\* zero-duration error result is pushed and executeRequest returns
BuildFails(w) ==
    /\ Running /\ worker[w].pc = "build"
    /\ Invalid(worker[w].reqURL) /\ Bodyless(config.Method)
    /\ \E now \in UnixSeconds :
          Push(RequestResult(0, 0, "invalid URL", now))
    /\ worker' = [worker EXCEPT ![w] = IF resultClosed THEN @ ELSE AtSelect]
    /\ history' = [history EXCEPT !.pushed[worker[w].reqIdx] =
                       IF resultClosed THEN @ ELSE @ + 1]
    /\ UNCHANGED <<config, ctxDone, deadlineFired, requestChan, requestClosed, feeder,
                   main, supervisor, wg, variables, current, mutex, randUsers,
                   resultClosed, agg, result>>
\* http.NewRequestWithContext fails and the method has a body: req is nil and
\* req.Header.Set dereferences it before err is looked at
BuildPanics(w) ==
    /\ Running /\ worker[w].pc = "build"
    /\ Invalid(worker[w].reqURL) /\ ~Bodyless(config.Method)
    /\ panicked' = "nil pointer dereference"
    /\ UNCHANGED <<config, ctxDone, deadlineFired, requestChan, requestClosed, feeder,
                   main, supervisor, wg, worker, variables, current, mutex, randUsers,
                   resultChan, resultClosed, agg, result, history>>
\* Send as it would be if client.Do sent the request though ctx is done
SendAnyway(w) ==
    /\ Running /\ worker[w].pc = "build"
    /\ ~Invalid(worker[w].reqURL)
    /\ \E now \in UnixSeconds :
          worker' = [worker EXCEPT ![w].pc = "inflight", ![w].reqStart = now]
    /\ history' = [history EXCEPT !.sent[worker[w].reqIdx] = @ + 1]
    /\ UNCHANGED <<config, ctxDone, deadlineFired, requestChan, requestClosed, feeder,
                   main, supervisor, wg, variables, current, mutex, randUsers,
                   resultChan, resultClosed, agg, result, panicked>>
\* the request is built, reqStart := time.Now(), and client.Do puts it on the wire
Send(w) ==
    /\ Running /\ worker[w].pc = "build"
    /\ ~Invalid(worker[w].reqURL) /\ ~ctxDone
    /\ \E now \in UnixSeconds :
          worker' = [worker EXCEPT ![w].pc = "inflight", ![w].reqStart = now]
    /\ history' = [history EXCEPT !.sent[worker[w].reqIdx] = @ + 1]
    /\ UNCHANGED <<config, ctxDone, deadlineFired, requestChan, requestClosed, feeder,
                   main, supervisor, wg, variables, current, mutex, randUsers,
                   resultChan, resultClosed, agg, result, panicked>>
\* the request is built but ctx is done by now: client.Do returns the context's
\* error without sending, and the result is pushed
SendRefused(w) ==
    /\ Running /\ worker[w].pc = "build"
    /\ ~Invalid(worker[w].reqURL) /\ ctxDone
    /\ \E now \in UnixSeconds :
          Push(RequestResult(Refused.Duration, Refused.Status, Refused.Error, now))
    /\ worker' = [worker EXCEPT ![w] = IF resultClosed THEN @ ELSE AtSelect]
    /\ history' = [history EXCEPT !.pushed[worker[w].reqIdx] =
                       IF resultClosed THEN @ ELSE @ + 1]
    /\ UNCHANGED <<config, ctxDone, deadlineFired, requestChan, requestClosed, feeder,
                   main, supervisor, wg, variables, current, mutex, randUsers,
                   resultClosed, agg, result>>
\* client.Do returns a response or a transport error; the result is pushed
Respond(w) ==
    /\ Running /\ worker[w].pc = "inflight"
    /\ \E r \in Responses :
          Push(RequestResult(r.Duration, r.Status, r.Error, worker[w].reqStart))
    /\ worker' = [worker EXCEPT ![w] = IF resultClosed THEN @ ELSE AtSelect]
    /\ history' = [history EXCEPT !.pushed[worker[w].reqIdx] =
                       IF resultClosed THEN @ ELSE @ + 1]
    /\ UNCHANGED <<config, ctxDone, deadlineFired, requestChan, requestClosed, feeder,
                   main, supervisor, wg, variables, current, mutex, randUsers,
                   resultClosed, agg, result>>
\* ctx is done while the request is on the wire: client.Do returns the context's
\* error; the result is pushed
Abort(w) ==
    /\ Running /\ worker[w].pc = "inflight" /\ ctxDone
    /\ Push(RequestResult(Aborted.Duration, Aborted.Status, Aborted.Error,
                          worker[w].reqStart))
    /\ worker' = [worker EXCEPT ![w] = IF resultClosed THEN @ ELSE AtSelect]
    /\ history' = [history EXCEPT !.pushed[worker[w].reqIdx] =
                       IF resultClosed THEN @ ELSE @ + 1]
    /\ UNCHANGED <<config, ctxDone, deadlineFired, requestChan, requestClosed, feeder,
                   main, supervisor, wg, variables, current, mutex, randUsers,
                   resultClosed, agg, result>>

\* ------------------------------------------------------------ specification
WorkerStep(w) ==
    \/ Take(w) \/ StopOnClose(w) \/ StopOnDone(w) \/ Skip(w) \/ Enter(w)
    \/ ResolveLocal(w) \/ SeqLock(w) \/ SeqRead(w) \/ SeqAdd(w) \/ SeqWrapUnlock(w)
    \/ DrawPanics(w) \/ DrawBegin(w) \/ DrawEnd(w) \/ DrawRaces(w)
    \/ BuildFails(w) \/ BuildPanics(w) \/ Send(w) \/ SendRefused(w)
    \/ Respond(w) \/ Abort(w)

Next ==
    \/ FeederSend \/ FeederCancelled \/ FeederClose
    \/ Begin \/ SpawnWorker \/ StartSupervisor \/ SupervisorClose
    \/ Receive \/ Return \/ DeadlineExpires
    \/ \E w \in Workers : WorkerStep(w)

Spec == Init /\ [][Next]_vars

\* ------------------------------------------------------------- properties
RECURSIVE SumUpTo(_, _)
SumUpTo(f, n) == IF n < 0 THEN 0 ELSE f[n] + SumUpTo(f, n - 1)
\* the number of results workers have pushed so far
PushedCount == SumUpTo(history.pushed, MaxRequests - 1)
Returned == main.pc = "returned"

\* C1: when the deadline does not fire during the run, RunTest returns having
\* processed exactly config.Requests results (totalCount = Requests)
C1_AllProcessed ==
    (Returned /\ ~deadlineFired) =>
        /\ agg.totalCount = config.Requests
        /\ result.totalCount = config.Requests
C1_Witness ==
    /\ Returned /\ ~deadlineFired
    /\ config.Requests = MaxRequests /\ config.Concurrency = MaxConcurrency
    /\ agg.totalCount = MaxRequests
    /\ Len(agg.Errors) >= 1 /\ agg.successCount >= 1

Indices == 0..(MaxRequests - 1)
\* some worker is inside executeRequest for index i
Holding(i) == \E w \in Workers : worker[w].reqIdx = i

\* C2 as stated: every index a worker took and finished with has produced
\* exactly one result
C2_ExactlyOne ==
    \A i \in Indices :
        (history.taken[i] >= 1 /\ ~Holding(i)) => history.pushed[i] = 1
\* C2 as amended: no index is taken twice, sent twice or pushed twice; an index
\* whose executeRequest returned has produced exactly one result, unless
\* executeRequest found ctx done on entry, and then it produced none
C2_AtMostOne ==
    \A i \in Indices :
        /\ history.taken[i] <= 1
        /\ history.sent[i] <= 1
        /\ history.pushed[i] <= history.taken[i]
        /\ i \in history.skipped => (history.pushed[i] = 0 /\ ctxDone)
        /\ (history.taken[i] = 1 /\ ~Holding(i)) =>
              (history.pushed[i] = 1 <=> i \notin history.skipped)
C2_Witness ==
    /\ Returned
    /\ \E i, j \in Indices :
          /\ i \in history.skipped /\ history.taken[i] = 1 /\ history.pushed[i] = 0
          /\ history.taken[j] = 1 /\ history.pushed[j] = 1
          /\ \E k \in DOMAIN agg.Errors : agg.Errors[k].Message = "connection refused"

\* the sequential variable of the run, when it has one
HasSeq == "seq" \in DOMAIN variables /\ variables["seq"].Strategy = "sequential"
\* what one caller alone gets from k resolutions that start at cursor cur
RECURSIVE SoloValues(_, _, _)
SoloValues(v, cur, k) ==
    IF k = 0 THEN <<>>
    ELSE <<cur>> \o SoloValues(v, SeqWrap(v, SeqAdvance(v, cur)), k - 1)
RECURSIVE SoloCursor(_, _, _)
SoloCursor(v, cur, k) ==
    IF k = 0 THEN cur ELSE SoloCursor(v, SeqWrap(v, SeqAdvance(v, cur)), k - 1)
InCriticalSection(w) == worker[w].pc \in {"locked", "read", "added"}
WaitsForLock(w) == worker[w].pc = "resolve" /\ How(worker[w]) = "sequential"

\* C3: under any interleaving the values handed out, in the order they are
\* assigned, are those one caller alone would get from as many resolutions, at
\* most one worker is inside the critical section, and outside of it the cursor
\* is the one that many resolutions by one caller leave
C3_SequentialAtomic ==
    HasSeq =>
        LET v == variables["seq"]
            k == Len(history.handed)
        IN /\ history.handed = SoloValues(v, v.StartValue, k)
           /\ Cardinality({w \in Workers : InCriticalSection(w)}) <= 1
           /\ (\A w \in Workers : ~InCriticalSection(w)) =>
                  current["seq"] = SoloCursor(v, v.StartValue, k)
C3_Witness ==
    /\ HasSeq /\ Len(history.handed) >= 4
    /\ \E w1, w2 \in Workers :
          w1 # w2 /\ worker[w1].pc = "read" /\ WaitsForLock(w2)

\* C4: with end > start the k-th value handed out is
\* start + ((k-1) mod period) * increment, period being the number of values
\* start, start+increment, ... that do not exceed end; an increment <= 0 counts
\* as 1; start=0, end=2, increment=1 gives 0,1,2,0,1
StatedIncrement(d) == IF d.Increment <= 0 THEN 1 ELSE d.Increment
Period(d) == ((d.EndValue - d.StartValue) \div StatedIncrement(d)) + 1
\* the sequential definition as config.Variables states it
StatedSeq == config.Variables.vars[LastIndexOf(config.Variables.vars, "seq")]
C4_SequentialValues ==
    (HasSeq /\ StatedSeq.EndValue > StatedSeq.StartValue) =>
        /\ \A k \in DOMAIN history.handed :
              history.handed[k] =
                  StatedSeq.StartValue
                      + ((k - 1) % Period(StatedSeq)) * StatedIncrement(StatedSeq)
        /\ (StatedSeq.StartValue = 0 /\ StatedSeq.EndValue = 2
              /\ StatedSeq.Increment = 1 /\ Len(history.handed) >= 5) =>
                  SubSeq(history.handed, 1, 5) = <<0, 1, 2, 0, 1>>
C4_Witness ==
    /\ HasSeq /\ StatedSeq.StartValue = 0 /\ StatedSeq.EndValue = 2
    /\ StatedSeq.Increment = 1
    /\ history.handed = <<0, 1, 2, 0, 1>>

\* C5: the shared random source is never inside two workers' calls at once
C5_RandExclusive == Cardinality(randUsers) <= 1

\* C6: a failed request construction, whatever the method, pushes one result
\* with duration 0, status 0 and the error set, and the worker goes on to take
\* the next index
C6_BuildFailureRecorded ==
    [][\A w \in Workers :
          (/\ worker[w].pc = "build" /\ Invalid(worker[w].reqURL)
           /\ (worker'[w] # worker[w] \/ panicked' = "nil pointer dereference"))
          => /\ panicked' = ""
             /\ worker'[w].pc = "select"
             /\ Len(resultChan') = Len(resultChan) + 1
             /\ LET res == resultChan'[Len(resultChan')]
                IN res.Duration = 0 /\ res.Status = 0 /\ res.Error # ""]_vars

\* C7: processVariables never ends the process, whatever the definitions are
C7_ResolveNeverPanics ==
    panicked \notin {"invalid argument to Intn", "index out of range"}

\* what getVariableValue may put in the place of token t for request idx
Fits(how, t, o, idx) ==
    CASE how \in {"literal", "undefined", "unsupported"} -> o = t
      [] how = "index" -> o = Itoa(idx)
      [] how = "static" -> o = StrVal(variables[t.s].Value)
      [] how \in {"sequential", "$random", "int"} -> o.k = "int"
      [] how = "float" -> o.k = "float"
      [] how = "string" -> o.k = "random-"
      [] how = "uuid" -> o = UUIDVal
      [] how = "timestamp" -> o = TimestampVal
      [] OTHER -> FALSE
\* out is input with every placeholder that resolves replaced by a value and
\* every other token, an unresolvable placeholder included, left as it is
RECURSIVE ResolvedFrom(_, _, _)
ResolvedFrom(input, out, idx) ==
    IF input = <<>> THEN out = <<>>
    ELSE LET t == Head(input)
             how == IF t.k = "ph" THEN Resolution(variables, t.s) ELSE "literal"
         IN IF how = "template"
            THEN LET n == Len(variables[t.s].Template)
                 IN /\ Len(out) >= n
                    /\ \A i \in 1..n : out[i] \notin {Ph("$index"), Ph("$random")}
                    /\ ResolvedFrom(Tail(input), SubSeq(out, n + 1, Len(out)), idx)
            ELSE /\ out # <<>>
                 /\ Fits(how, t, Head(out), idx)
                 /\ ResolvedFrom(Tail(input), Tail(out), idx)
Unresolvable(t) ==
    t.k = "ph" /\ Resolution(variables, t.s) \in {"undefined", "unsupported"}
Resolving(w) == worker[w].pc \in {"resolve", "locked", "read", "added", "drawing"}

\* C8: a placeholder with an undefined name or an unsupported strategy stays in
\* the text as written, the other placeholders of the string are replaced by
\* their values, and no result is pushed in place of building the request
C8_PlaceholderKept ==
    \A w \in Workers :
        LET r == worker[w] IN
        /\ (config.UseVariables /\ r.pc \in {"build", "inflight"}) =>
              /\ ResolvedFrom(config.URL, r.reqURL, r.reqIdx)
              /\ ResolvesBody(config.Method) =>
                    ResolvedFrom(config.Body, r.reqBody, r.reqIdx)
        /\ Resolving(w) =>
              /\ ResolvedFrom(SubSeq(r.input, 1, r.pos - 1), r.out, r.reqIdx)
              /\ history.pushed[r.reqIdx] = 0
C8_Witness ==
    \E w \in Workers :
        /\ worker[w].pc = "inflight"
        /\ \E i \in DOMAIN config.URL : Unresolvable(config.URL[i])
        /\ \E i \in DOMAIN config.Body : Unresolvable(config.Body[i])
        /\ worker[w].reqURL = <<Ph("nope"), Itoa(1)>>
        /\ worker[w].reqBody = <<Ph("bogus"), StrVal(OkText)>>

\* C9: RunTest returns a nil error also when the deadline fired; it has then
\* processed at most config.Requests results, and every result a worker pushed,
\* before or after the expiry, has been counted
C9_DeadlineNotAnError ==
    Returned =>
        /\ result.err = "nil"
        /\ result.totalCount <= config.Requests
        /\ result.totalCount = PushedCount
        /\ resultChan = <<>>
C9_Witness ==
    /\ Returned /\ deadlineFired
    /\ result.totalCount >= 1 /\ result.totalCount < config.Requests
    /\ \E k \in DOMAIN result.Errors :
          result.Errors[k].Message = "context deadline exceeded"

\* C10: resultChan is closed only when every spawned worker has exited; no
\* worker sends on the closed channel; at the close every result produced is
\* either processed or still buffered for the aggregation loop
C10_CloseAfterWorkers ==
    /\ panicked # "send on closed channel"
    /\ resultClosed =>
          /\ main.pc \notin {"start", "spawn"} /\ wg = 0
          /\ \A w \in 1..config.Concurrency : worker[w].pc = "exited"
          /\ PushedCount = agg.totalCount + Len(resultChan)
C10_Witness ==
    /\ resultClosed /\ ~Returned
    /\ config.Concurrency = MaxConcurrency
    /\ Len(resultChan) >= 1 /\ PushedCount = MaxRequests

\* ------------------------------------------- the aggregation loop on its own
\* the results executeRequest can push: a response with a status, or a
\* failure of client.Do with the time it took
AggStatuses == {201, 404, 503}
AggDurations == {20 * TicksPerMs, 30 * TicksPerMs + 1, 40 * TicksPerMs}
AggOutcomes ==
    {RequestResult(d, st, "", t) :
        d \in AggDurations, st \in AggStatuses, t \in UnixSeconds}
    \cup {RequestResult(d, 0, "connection refused", t) :
             d \in AggDurations, t \in UnixSeconds}
Streams == UNION {[1..n -> AggOutcomes] : n \in 0..MaxStream}
AggConfig(n) ==
    [Requests |-> n, Concurrency |-> 1]
        @@ Config("GET", <<Lit(OkText)>>, <<>>, FALSE, Payload(<<>>))

\* RunTest at its aggregation loop when the only worker has pushed every
\* result and exited, and resultChan is closed with all of them buffered
InitAgg ==
    /\ resultChan \in Streams
    /\ config = AggConfig(Len(resultChan))
    /\ ctxDone = FALSE
    /\ deadlineFired = FALSE
    /\ requestChan = <<>>
    /\ requestClosed = TRUE
    /\ feeder = [pc |-> "done", i |-> config.Requests]
    /\ main = [pc |-> "aggregate", i |-> 1, timeout |-> Timeout(config)]
    /\ supervisor = "done"
    /\ wg = 0
    /\ worker = [w \in Workers |-> IF w = 1 THEN Exited ELSE Worker0]
    /\ variables = [name \in {} |-> Variable0]
    /\ current = InitialCurrent(variables)
    /\ mutex = Unlocked
    /\ randUsers = {}
    /\ resultClosed = TRUE
    /\ agg = Agg0
    /\ result = NoResult
    /\ panicked = ""
    /\ history = History0
NextAgg == Receive \/ Return
SpecAgg == InitAgg /\ [][NextAgg]_vars

\* the results the loop has processed so far, in order
Processed == history.processed
Failed(o) == o.Error # ""
Succeeded(o) == ~Failed(o) /\ o.Status \in 200..399
HttpError(o) == ~Failed(o) /\ o.Status \notin 200..399
\* how many processed results satisfy P
HowMany(P(_)) == Cardinality({k \in DOMAIN Processed : P(Processed[k])})

\* C11: when at least one result was processed, the returned SuccessRate is
\* 100 * successes / processed, the processed results including the failed
\* requests and the responses with an error status
C11_SuccessRate ==
    (Returned /\ Len(Processed) >= 1) =>
        result.SuccessRate = Ratio(100 * HowMany(Succeeded), Len(Processed))
C11_Witness ==
    /\ Returned /\ Len(Processed) = 3
    /\ HowMany(Succeeded) = 1 /\ HowMany(Failed) = 1 /\ HowMany(HttpError) = 1
    /\ result.SuccessRate = Ratio(100, 3)

\* the standard reason phrase of the error statuses tried
ReasonPhrase(status) ==
    CASE status = 404 -> "Not Found"
      [] status = 503 -> "Service Unavailable"
\* what one iteration of the loop does with the result res
Classified(res) ==
    CASE Failed(res) ->
            /\ agg'.Errors = Append(agg.Errors, [Status |-> NoStatus, Message |-> res.Error])
            /\ agg'.successCount = agg.successCount
            /\ agg'.StatusCodes = agg.StatusCodes
      [] Succeeded(res) ->
            /\ agg'.Errors = agg.Errors
            /\ agg'.successCount = agg.successCount + 1
      [] OTHER ->
            /\ agg'.Errors = Append(agg.Errors, [Status |-> res.Status,
                                                  Message |-> ReasonPhrase(res.Status)])
            /\ agg'.successCount = agg.successCount
            /\ res.Status \in DOMAIN agg'.StatusCodes
            /\ agg'.StatusCodes[res.Status] =
                  IF res.Status \in DOMAIN agg.StatusCodes
                  THEN agg.StatusCodes[res.Status] + 1 ELSE 1
\* C12: a result with an error adds one error record with its message and no
\* status; a result with status 200..399 is a success and adds no error
\* record; a result with another status adds one error record with the status
\* and its reason phrase, and increments the histogram entry of that status
C12_Classification ==
    [][(resultChan # <<>> /\ resultChan' = Tail(resultChan))
          => Classified(Head(resultChan))]_vars
C12_Witness ==
    /\ Len(Processed) = 3 /\ agg.successCount = 1
    /\ \E k \in DOMAIN Processed : Processed[k].Status = 201
    /\ agg.Errors = <<[Status |-> 503, Message |-> "Service Unavailable"],
                      [Status |-> NoStatus, Message |-> "connection refused"]>>
    /\ agg.StatusCodes = (201 :> 1) @@ (503 :> 1)

RECURSIVE SumOver(_, _)
SumOver(f, S) ==
    IF S = {} THEN 0
    ELSE LET x == CHOOSE y \in S : TRUE IN f[x] + SumOver(f, S \ {x})
ReachedStatus(o) == ~Failed(o)
\* the statuses of the processed results that carry no error
StatusesReached == {Processed[k].Status : k \in {j \in DOMAIN Processed : ~Failed(Processed[j])}}
\* C13: the histogram counts every processed result that reached a status,
\* success or not, and nothing else: its keys are the statuses reached, each
\* count is the number of results with that status, and at return the counts
\* add up to the number of processed results without an error
C13_Histogram ==
    /\ DOMAIN agg.StatusCodes = StatusesReached
    /\ \A st \in DOMAIN agg.StatusCodes :
          agg.StatusCodes[st] =
              Cardinality({k \in DOMAIN Processed :
                              ~Failed(Processed[k]) /\ Processed[k].Status = st})
    /\ Returned =>
          /\ result.StatusCodes = agg.StatusCodes
          /\ SumOver(result.StatusCodes, DOMAIN result.StatusCodes)
                = HowMany(ReachedStatus)
C13_Witness ==
    /\ Returned /\ Len(Processed) = 3 /\ HowMany(Failed) = 1
    /\ result.StatusCodes = (503 :> 2)

MinOf(S) == CHOOSE x \in S : \A y \in S : x <= y
MaxOf(S) == CHOOSE x \in S : \A y \in S : x >= y
SuccessDurations ==
    {Processed[k].Duration : k \in {j \in DOMAIN Processed : Succeeded(Processed[j])}}
\* C14: the returned minimum and maximum are the extremes of the durations of
\* the successful results only (status 200..399); the duration of a result
\* with an error status or an error is never reported as an extreme
C14_ExtremesOfSuccesses ==
    (Returned /\ SuccessDurations # {}) =>
        /\ result.MinResponseTime = Milliseconds(MinOf(SuccessDurations))
        /\ result.MaxResponseTime = Milliseconds(MaxOf(SuccessDurations))

\* C15: when no processed result is a success, also when none was processed,
\* the returned minimum and maximum are both 0
C15_NoSuccessNoExtremes ==
    (Returned /\ HowMany(Succeeded) = 0) =>
        /\ result.MinResponseTime = 0
        /\ result.MaxResponseTime = 0
C15_Witness ==
    /\ Returned /\ Len(Processed) = 2
    /\ HowMany(HttpError) = 1 /\ HowMany(Failed) = 1
    /\ agg.maxDuration = 40 * TicksPerMs /\ agg.minDuration = 40 * TicksPerMs
    /\ result.MinResponseTime = 0 /\ result.MaxResponseTime = 0

\* C16: the returned average is the sum of the durations of every processed
\* result, failed requests included, over the number of processed results
C16_AverageOfAll ==
    (Returned /\ Len(Processed) >= 1) =>
        result.AvgResponseTime =
            Ratio(Milliseconds(SumOver([k \in DOMAIN Processed |-> Processed[k].Duration],
                                       DOMAIN Processed)),
                  Len(Processed))

\* the processed results started in the second sec that satisfy P
StartedIn(sec, P(_)) ==
    {k \in DOMAIN Processed : Processed[k].Timestamp = sec /\ P(Processed[k])}
MsOf == [k \in DOMAIN Processed |-> Milliseconds(Processed[k].Duration)]
\* the point of the second sec made of the results K
PointOf(sec, K) ==
    [Timestamp |-> sec, ResponseTime |-> Ratio(SumOver(MsOf, K), Cardinality(K)),
     ActiveUsers |-> Cardinality(K)]
AnyResult(o) == TRUE
\* the timeline made of the processed results that satisfy P
TimelineOf(P(_)) ==
    {PointOf(sec, StartedIn(sec, P)) :
        sec \in {t \in UnixSeconds : StartedIn(t, P) # {}}}
\* C17 as stated: the timeline has one point per second in which a processed
\* result started, with the mean of the millisecond durations of all results
\* started in that second and their number
C17_TimelineOfAll == Returned => result.Timeline = TimelineOf(AnyResult)
\* C17, amended: the timeline has one point per second in which a processed
\* result without an error started, with the mean of the millisecond durations
\* of those results and their number; failed requests appear in no point
C17_TimelineOfReached == Returned => result.Timeline = TimelineOf(ReachedStatus)
C17_Witness ==
    /\ Returned /\ HowMany(ReachedStatus) = 3
    /\ \E k \in DOMAIN Processed : Processed[k].Duration = 30 * TicksPerMs + 1
    /\ result.Timeline =
          {[Timestamp |-> 10, ResponseTime |-> Ratio(50, 2), ActiveUsers |-> 2],
           [Timestamp |-> 11, ResponseTime |-> Ratio(40, 1), ActiveUsers |-> 1]}

\* ------------------------------------------------ the run's deadline on its own
TimeoutConfigs ==
    {[Requests |-> n, Concurrency |-> c]
        @@ Config("GET", <<Lit(OkText)>>, <<>>, FALSE, Payload(<<>>)) :
        n \in 0..MaxTimeoutRequests, c \in 1..MaxTimeoutConcurrency}
\* RunTest before its first statement
InitTimeout ==
    /\ config \in TimeoutConfigs
    /\ ctxDone = FALSE
    /\ deadlineFired = FALSE
    /\ requestChan = <<>>
    /\ requestClosed = FALSE
    /\ feeder = [pc |-> "loop", i |-> 0]
    /\ main = Main0
    /\ supervisor = "unborn"
    /\ wg = 0
    /\ worker = [w \in Workers |-> Worker0]
    /\ variables = [name \in {} |-> Variable0]
    /\ current = InitialCurrent(variables)
    /\ mutex = Unlocked
    /\ randUsers = {}
    /\ resultChan = <<>>
    /\ resultClosed = FALSE
    /\ agg = Agg0
    /\ result = NoResult
    /\ panicked = ""
    /\ history = History0
NextTimeout == Begin
SpecTimeout == InitTimeout /\ [][NextTimeout]_vars

\* C18 as stated: the deadline is ceil(Requests / Concurrency) + 10 seconds
C18_DeadlineCeil ==
    Started =>
        \E q \in 0..config.Requests :
            /\ q * config.Concurrency >= config.Requests
            /\ (q = 0 \/ (q - 1) * config.Concurrency < config.Requests)
            /\ main.timeout = q + 10
\* C18, amended: the deadline is floor(Requests / Concurrency) + 10 seconds,
\* the quotient rounded down when Requests is not a multiple of Concurrency
C18_DeadlineFloor ==
    Started =>
        \E q \in 0..config.Requests :
            /\ q * config.Concurrency <= config.Requests
            /\ (q + 1) * config.Concurrency > config.Requests
            /\ main.timeout = q + 10
C18_Witness ==
    /\ Started /\ config.Requests = 7 /\ config.Concurrency = 2
    /\ main.timeout = 13

\* ---------------------------------------------- the bounds of the dispatch
\* the worker goroutines started so far
Spawned == {w \in Workers : worker[w].pc # "unborn"}
\* the workers inside executeRequest
Executing == {w \in Workers : worker[w].pc \notin {"unborn", "select", "exited"}}
\* C19: never more than config.Concurrency workers are spawned, exactly that
\* many once the spawn loop has ended, and at most config.Concurrency requests
\* are being executed at the same time
C19_BoundedDispatch ==
    /\ Cardinality(Spawned) <= config.Concurrency
    /\ main.pc \notin {"start", "spawn"} =>
          /\ main.i = config.Concurrency
          /\ Spawned = 1..config.Concurrency
    /\ Cardinality(Executing) <= config.Concurrency
    /\ wg <= config.Concurrency
C19_Witness ==
    /\ config.Concurrency = MaxConcurrency /\ main.pc = "aggregate"
    /\ \A w \in Workers : worker[w].pc = "inflight"
    /\ \E w \in Workers : worker[w].reqIdx = MaxRequests - 1

\* C20: resultChan never holds more than config.Requests results, and there
\* is room in it for the result of every request being executed, so the push
\* that ends executeRequest never waits, whatever the loop has consumed
C20_PushNeverBlocks ==
    /\ Len(resultChan) <= config.Requests
    /\ ~resultClosed =>
          Len(resultChan) + Cardinality(Executing) <= ResultCapacity(config)
C20_Witness ==
    /\ config.Requests = MaxRequests /\ agg.totalCount = 0
    /\ Len(resultChan) = MaxRequests - 1
    /\ Cardinality(Executing) = 1
    /\ \E w \in Executing : worker[w].pc = "inflight"

\* ------------------------------------------------ more on the variable engine
\* C21: with end <= start the cursor never wraps: the k-th value handed out is
\* start + (k-1) * increment (an increment <= 0 counting as 1), each value
\* larger than the one before and none after the first equal to start
C21_NoWrapWithoutRange ==
    (HasSeq /\ StatedSeq.EndValue <= StatedSeq.StartValue) =>
        /\ \A k \in DOMAIN history.handed :
              history.handed[k] =
                  StatedSeq.StartValue + (k - 1) * StatedIncrement(StatedSeq)
        /\ \A k \in DOMAIN history.handed :
              k > 1 => /\ history.handed[k] > history.handed[k - 1]
                       /\ history.handed[k] # StatedSeq.StartValue
C21_Witness ==
    /\ HasSeq /\ StatedSeq.StartValue = 3 /\ StatedSeq.EndValue = 1
    /\ history.handed = <<3, 5, 7, 9, 11, 13>>

\* the worker w leaves the position it is at
Moves(w) == worker'[w] # worker[w]
\* the result the step appends to resultChan
Pushes(res) == resultChan' = Append(resultChan, res)
\* what a step does not do once the deadline has fired: put a request on the wire
NoRequestStarted == history'.sent = history.sent
\* a worker holding an index at the start of executeRequest returns without a
\* request and without a result
TakenIsDropped(w) ==
    (worker[w].pc = "execute" /\ Moves(w)) =>
        /\ worker'[w] = AtSelect
        /\ worker[w].reqIdx \in history'.skipped
        /\ history'.pushed = history.pushed
        /\ resultChan' = resultChan
\* a request on the wire ends with one result pushed
InFlightYields(w, outcomes) ==
    (worker[w].pc = "inflight" /\ Moves(w)) =>
        /\ history'.pushed[worker[w].reqIdx] = history.pushed[worker[w].reqIdx] + 1
        /\ \E r \in outcomes :
              Pushes(RequestResult(r.Duration, r.Status, r.Error, worker[w].reqStart))
\* C22 as stated: once the deadline has fired the feeder puts no further index
\* in requestChan, no request is put on the wire, an index taken is dropped,
\* and a request on the wire is aborted and pushes the context's error
C22_NothingAfterDeadline ==
    [][deadlineFired =>
          /\ Len(requestChan') <= Len(requestChan) /\ feeder'.i = feeder.i
          /\ NoRequestStarted
          /\ \A w \in Workers : TakenIsDropped(w) /\ InFlightYields(w, {Aborted})]_vars
\* C22, amended: once the deadline has fired no request is put on the wire, an
\* index a worker holds at the start of executeRequest is dropped without a
\* result, and a request on the wire pushes one result, the context's error or
\* the response that came first; the feeder may still emit indices
C22_NoRequestAfterDeadline ==
    [][deadlineFired =>
          /\ NoRequestStarted
          /\ \A w \in Workers :
                TakenIsDropped(w) /\ InFlightYields(w, {Aborted} \cup Responses)]_vars
C22_Witness ==
    /\ deadlineFired /\ history.skipped # {}
    /\ \E i \in Indices : history.sent[i] = 1 /\ history.pushed[i] = 1
    /\ \E k \in DOMAIN resultChan :
          /\ resultChan[k].Error = "context deadline exceeded"
          /\ resultChan[k].Duration = Aborted.Duration

\* ------------------------------------------------------ RunTest called again
\* the configurations run more than once: a sequential variable, a random
\* one (one of them with MaxValue < MinValue), a URL that does not parse
RunsScenarios ==
    {Config("GET", <<Lit(OkText), Ph("seq")>>, <<>>, TRUE,
            Payload(<<SequentialVar("seq", p[1], p[2], p[3])>>)) :
        p \in {<<0, 2, 1>>, <<1, 4, 2>>}}
    \cup {Config("GET", <<Lit(OkText), Ph("rnd")>>, <<>>, TRUE,
                 Payload(<<RandomVar("rnd", "integer", p[1], p[2])>>)) :
             p \in {<<1, 2>>, <<5, 3>>}}
    \cup {Config(m, <<Lit(BadText)>>, <<>>, FALSE, Payload(<<>>)) : m \in SomeMethods}
RunsConfigs ==
    {[Requests |-> n, Concurrency |-> c] @@ s :
        n \in 0..MaxRequests, c \in 1..MaxConcurrency, s \in RunsScenarios}
InitRuns ==
    /\ config \in RunsConfigs
    /\ ctxDone = FALSE
    /\ deadlineFired = FALSE
    /\ requestChan = <<>>
    /\ requestClosed = FALSE
    /\ feeder = [pc |-> "loop", i |-> 0]
    /\ main = Main0
    /\ supervisor = "unborn"
    /\ wg = 0
    /\ worker = [w \in Workers |-> Worker0]
    /\ variables = IF config.UseVariables THEN SetupVariables(config)
                   ELSE [name \in {} |-> Variable0]
    /\ current = InitialCurrent(variables)
    /\ mutex = Unlocked
    /\ randUsers = {}
    /\ resultChan = <<>>
    /\ resultClosed = FALSE
    /\ agg = Agg0
    /\ result = NoResult
    /\ panicked = ""
    /\ history = History0
\* RunAgain as it would be if the cursors were kept from one call to the next
RunAgainWithCursors ==
    /\ Running /\ Returned /\ feeder.pc = "done" /\ history.runs < MaxRuns
    /\ ctxDone' = FALSE
    /\ deadlineFired' = FALSE
    /\ requestChan' = <<>>
    /\ requestClosed' = FALSE
    /\ feeder' = [pc |-> "loop", i |-> 0]
    /\ main' = Main0
    /\ supervisor' = "unborn"
    /\ wg' = 0
    /\ worker' = [w \in Workers |-> Worker0]
    /\ mutex' = Unlocked
    /\ randUsers' = {}
    /\ resultChan' = <<>>
    /\ resultClosed' = FALSE
    /\ agg' = Agg0
    /\ result' = NoResult
    /\ history' = [History0 EXCEPT !.runs = history.runs + 1,
                                   !.earlier = history.handed]
    /\ UNCHANGED <<config, variables, current, panicked>>
\* RunTest has returned, its feeder has ended, and RunTest is called again with
\* the same configuration: every local is made anew, varCtx included
RunAgain ==
    /\ Running /\ Returned /\ feeder.pc = "done" /\ history.runs < MaxRuns
    /\ ctxDone' = FALSE
    /\ deadlineFired' = FALSE
    /\ requestChan' = <<>>
    /\ requestClosed' = FALSE
    /\ feeder' = [pc |-> "loop", i |-> 0]
    /\ main' = Main0
    /\ supervisor' = "unborn"
    /\ wg' = 0
    /\ worker' = [w \in Workers |-> Worker0]
    /\ variables' = IF config.UseVariables THEN SetupVariables(config)
                    ELSE [name \in {} |-> Variable0]
    /\ current' = InitialCurrent(variables')
    /\ mutex' = Unlocked
    /\ randUsers' = {}
    /\ resultChan' = <<>>
    /\ resultClosed' = FALSE
    /\ agg' = Agg0
    /\ result' = NoResult
    /\ history' = [History0 EXCEPT !.runs = history.runs + 1,
                                   !.earlier = history.handed]
    /\ UNCHANGED <<config, panicked>>
NextRuns == Next \/ RunAgain
SpecRuns == InitRuns /\ [][NextRuns]_vars

\* C23: every call of RunTest starts from cursors at their start value, the
\* values a run hands out are those the run before handed out, as far as both
\* went, and within a run all workers draw on the one cursor
C23_FreshState ==
    /\ main.pc = "start" =>
          /\ variables = (IF config.UseVariables THEN SetupVariables(config)
                          ELSE [name \in {} |-> Variable0])
          /\ \A name \in DOMAIN variables :
                variables[name].Strategy = "sequential" =>
                    current[name] = variables[name].StartValue
    /\ HasSeq =>
          /\ \A k \in DOMAIN history.handed \cap DOMAIN history.earlier :
                history.handed[k] = history.earlier[k]
          /\ history.handed =
                SoloValues(variables["seq"], variables["seq"].StartValue,
                           Len(history.handed))
C23_Witness ==
    /\ HasSeq /\ history.runs = 2 /\ config.Concurrency = MaxConcurrency
    /\ Len(history.handed) = MaxRequests
    /\ history.handed = history.earlier
    /\ history.handed[2] # history.handed[1]

\* the random/integer variable of the run, when it has one
HasRndInt ==
    /\ "rnd" \in DOMAIN variables
    /\ variables["rnd"].Strategy = "random" /\ variables["rnd"].Type = "integer"
\* the positions of the URL that hold the placeholder of the variable name
PlacesOf(name) == {i \in DOMAIN config.URL : config.URL[i] = Ph(name)}
Built(w) == worker[w].pc \in {"build", "inflight"}
OutAfter(w) ==
    IF worker[w].pos < Len(worker[w].input) THEN worker'[w].out
    ELSE IF worker[w].field = "url" THEN worker'[w].reqURL
    ELSE worker'[w].reqBody
\* the value config.Variables gives the static variable name
StatedValue(name) ==
    config.Variables.vars[LastIndexOf(config.Variables.vars, name)].Value
AtStatic(w) == worker[w].pc = "resolve" /\ How(worker[w]) = "static"
\* C25: every resolution of a static variable, by any worker and for any
\* request index, puts the configured value in the text and leaves the
\* variables, the cursors, the mutex and the random source as they are
C25_StaticIdempotent ==
    [][\A w \in Workers :
          (AtStatic(w) /\ Moves(w)) =>
              /\ OutAfter(w) =
                    Append(worker[w].out, StrVal(StatedValue(Token(worker[w]).s)))
              /\ UNCHANGED <<variables, current, mutex, randUsers>>]_vars
C25_Witness ==
    /\ \A w \in Workers :
          /\ worker[w].pc = "inflight"
          /\ worker[w].reqBody = <<Ph("bogus"), StrVal(OkText)>>
    /\ \E w1, w2 \in Workers : worker[w1].reqIdx # worker[w2].reqIdx

\* the template variable of the run, when it has one
HasTpl == "tpl" \in DOMAIN variables /\ variables["tpl"].Strategy = "template"
\* the text of the template tpl in request idx: the built-ins replaced by
\* decimal texts, every other token as it is written
ExpandedFrom(tpl, out, idx) ==
    /\ Len(out) = Len(tpl)
    /\ \A i \in DOMAIN tpl :
          CASE tpl[i] = Ph("$index") -> out[i] = Itoa(idx)
            [] tpl[i] = Ph("$random") ->
                  out[i].k = "int" /\ out[i].n >= 0 /\ out[i].n < RandomRange
            [] OTHER -> out[i] = tpl[i]
\* C26: a template variable resolves to its template with {{$index}} and
\* {{$random}} replaced; a reference to a user-defined variable in the template
\* stays in the text, and the cursor of that variable is not advanced
C26_TemplateBuiltinsOnly ==
    (HasTpl /\ config.Body = <<Ph("tpl")>>) =>
        /\ \A w \in Workers :
              (Built(w) /\ ResolvesBody(config.Method)) =>
                  ExpandedFrom(variables["tpl"].Template, worker[w].reqBody,
                               worker[w].reqIdx)
        /\ \A name \in DOMAIN variables :
              variables[name].Strategy = "sequential" =>
                  current[name] = variables[name].StartValue
        /\ history.handed = <<>>
C26_Witness ==
    /\ HasTpl /\ HasSeq
    /\ \E i \in DOMAIN variables["tpl"].Template :
          variables["tpl"].Template[i] = Ph("seq")
    /\ \E w \in Workers :
          /\ worker[w].pc = "inflight" /\ worker[w].reqIdx = 1
          /\ worker[w].reqBody = <<Itoa(1), Itoa(RandomRange - 1), Ph("seq"),
                                   Itoa(RandomRange - 1)>>

\* config.Variables does not parse
Unparsed == config.UseVariables /\ ~config.Variables.ok
\* C27: when config.Variables does not parse the run goes on with no variable
\* defined: a placeholder of a user-defined name stays as written, $index and
\* $random are resolved, and a run the deadline does not cut short puts every
\* request on the wire
C27_MalformedPayload ==
    Unparsed =>
        /\ DOMAIN variables = {}
        /\ \A w \in Workers :
              Built(w) =>
                  /\ Len(worker[w].reqURL) = Len(config.URL)
                  /\ \A i \in DOMAIN config.URL :
                        CASE config.URL[i] = Ph("$index") ->
                                worker[w].reqURL[i] = Itoa(worker[w].reqIdx)
                          [] config.URL[i] = Ph("$random") ->
                                /\ worker[w].reqURL[i].k = "int"
                                /\ worker[w].reqURL[i].n \in 0..(RandomRange - 1)
                          [] OTHER -> worker[w].reqURL[i] = config.URL[i]
        /\ (Returned /\ ~deadlineFired) =>
              \A i \in 0..(config.Requests - 1) :
                  history.sent[i] = 1 /\ history.pushed[i] = 1
C27_Witness ==
    /\ Unparsed /\ Returned /\ ~deadlineFired /\ config.Requests = MaxRequests
    /\ \E i \in DOMAIN config.URL : config.URL[i] = Ph("seq")
    /\ \A i \in Indices : history.sent[i] = 1
    /\ agg.successCount = MaxRequests

\* ------------------------------------------------------------- termination
\* the goroutines are scheduled: a step that can be taken is taken in the end
SpecLive == InitRuns /\ [][Next]_vars /\ WF_vars(Next)
\* RunTest has returned and none of its goroutines is left
AllDone ==
    /\ Returned /\ feeder.pc = "done" /\ supervisor = "done"
    /\ \A w \in 1..config.Concurrency : worker[w].pc = "exited"
\* C28: every run ends: the feeder closes requestChan, every worker exits, the
\* supervisor closes resultChan, the aggregation loop ends and RunTest returns
C28_Terminates == <>AllDone

\* ----------------------------------------------- more on the aggregation loop
\* C29: after every iteration of the loop each result processed so far has
\* been classified once: the successes and the error records together are as
\* many as the results processed
C29_ClassifiedOnce ==
    /\ agg.totalCount = Len(Processed)
    /\ agg.successCount + Len(agg.Errors) = agg.totalCount
    /\ agg.successCount = HowMany(Succeeded)
    /\ Len(agg.Errors) = HowMany(Failed) + HowMany(HttpError)
C29_Witness ==
    /\ ~Returned /\ resultChan # <<>> /\ Len(Processed) = 2
    /\ agg.successCount = 1 /\ Len(agg.Errors) = 1

\* the aggregation loop over a stream, for the comparison of a run with the
\* runs over the same results in every other order
SpecOrder == InitAgg /\ [][NextAgg]_vars

\* the loop run from its start over the results q
RECURSIVE Aggregate(_, _)
Aggregate(a, q) == IF q = <<>> THEN a ELSE Aggregate(ProcessResult(a, Head(q)), Tail(q))
\* the results p in every order
Reorderings(p) ==
    {[i \in DOMAIN p |-> p[f[i]]] : f \in Permutations(DOMAIN p)}
\* C30: at return the results processed, taken in any other order, give the
\* same success count, histogram, duration sum and extremes, and the same
\* summary but for the order of its error list
C30_OrderIndependent ==
    Returned =>
        \A q \in Reorderings(Processed) :
            \A b \in {Aggregate(Agg0, q)} :
                /\ b.totalCount = agg.totalCount
                /\ b.successCount = agg.successCount
                /\ b.StatusCodes = agg.StatusCodes
                /\ b.totalDuration = agg.totalDuration
                /\ b.minDuration = agg.minDuration
                /\ b.maxDuration = agg.maxDuration
                /\ [Summarize(b) EXCEPT !.Errors = <<>>] = [result EXCEPT !.Errors = <<>>]
C30_Witness ==
    /\ Returned /\ Len(Processed) = 3
    /\ Processed[1].Timestamp = Processed[2].Timestamp
    /\ Processed[1].Duration < Processed[2].Duration
    /\ Processed[1].Status = 503 /\ Processed[2].Status = 201
    /\ Failed(Processed[3])
    /\ Cardinality(Reorderings(Processed)) = 6

\* ------------------------------------------------- the range of the cursor
\* C31: with end > start the cursor is within start..end whenever no worker
\* is inside the critical section, and so is every value handed out
C31_CursorInRange ==
    (HasSeq /\ StatedSeq.EndValue > StatedSeq.StartValue) =>
        /\ (\A w \in Workers : ~InCriticalSection(w)) =>
               current["seq"] \in StatedSeq.StartValue..StatedSeq.EndValue
        /\ \A k \in DOMAIN history.handed :
               history.handed[k] \in StatedSeq.StartValue..StatedSeq.EndValue

====
